---- MODULE Spec2Model ----
(***************************************************************************)
(* The multiplayer 3D world of scoosed/3d: the server of src/server.py     *)
(* (accept loop, one threaded_client handler per connection, the shared    *)
(* players table, the world cube list) and the network side of the client  *)
(* of src/engine.py (Network.connect / Network.send, connect_to_server,    *)
(* return_to_menu and the in-game part of Engine3D.run).                   *)
(*                                                                         *)
(* Lengths are kept in half units (1.0 in the source = 2 here), so that    *)
(* -1.5 + size/2 of generate_random_world_cubes is an integer.             *)
(*                                                                         *)
(* A TCP connection is a pair of message queues (c2s, s2c), an end-of-     *)
(* stream mark for each side (client_closed, server_closed) and the state  *)
(* of the path (link): "up", or the OSError the next socket call on either *)
(* side raises.  Handler threads run under the interpreter lock: one       *)
(* action is one stretch of a thread between two blocking socket calls or  *)
(* two accesses of the shared table; pickle.dumps(reply) is one step.      *)
(***************************************************************************)
EXTENDS Integers, Sequences, FiniteSets, TLC

\* ---------------------------------------------------------------- bounds
\* Connections ever established with the server (the accept loop is unbounded).
MaxConns == 2
\* The count argument of generate_random_world_cubes (30 in the source).
NumCubes == 1
\* Events of the environment in one run: a path breaks, the server process is
\* stopped, a client process is ended.
MaxFaults == 1

\* ------------------------------------------------------------- constants
\* None: Engine3D.net = None, and the None that connect and send return on an error
None == 0
\* Engine3D.player_id = -1
NoPlayerId == -1
\* player_id_counter = 1
FirstPlayerId == 1

\* The client processes: each is one Engine3D; its display name is its own name.
Clients == {"A", "B"}

\* x source units in half units.
H(x) == 2 * x

GRASS_GREEN == <<124, 252, 0>>
\* players[player_id] = {'pos': [0, 5, 0], ...} and Cube(position=(0, 5, 0), ...)
SpawnPos == <<H(0), H(5), H(0)>>
\* The positions the physics step can leave the local player at (two of them).
Positions == {SpawnPos, <<H(1), H(5), H(1)>>}
\* random.randint(0, 255) three times: one of the colours it can give.
PlayerColors == {<<0, 0, 255>>}

\* The exceptions of the socket calls and of pickle.loads.
SocketErrors ==
    {"ConnectionRefusedError", "ConnectionResetError", "TimeoutError", "BrokenPipeError"}
\* What a broken path raises on the next socket call: ECONNRESET or ETIMEDOUT.
LinkErrors == {"ConnectionResetError", "TimeoutError"}

\* except (pickle.UnpicklingError, EOFError): the handshake's handler.
HandshakeCaught(exc) == exc \in {"UnpicklingError", "EOFError"}
\* except (pickle.UnpicklingError, ConnectionResetError, EOFError): the loop's.
LoopCaught(exc) == exc \in {"UnpicklingError", "ConnectionResetError", "EOFError"}
\* except socket.error: socket.error is OSError; EOFError and UnpicklingError are not.
IsSocketError(exc) == exc \in SocketErrors

\* ------------------------------------------------------------ world cubes
\* world_cubes.append({'pos': (0, -2, 0), 'size': (150, 1, 150), 'color': GRASS_GREEN})
Ground == [pos |-> <<H(0), H(-2), H(0)>>, size |-> <<H(150), H(1), H(150)>>,
           color |-> GRASS_GREEN]
\* The cube centred on the ground's top surface: py = -1.5, half of it sunk.
RandomCube_Sunk(px, pz, size, color) ==
    [pos |-> <<H(px), 0 - 3, H(pz)>>, size |-> <<H(size)>>, color |-> color]
\* One random cube: size is a scalar (a 1-tuple here), py = -1.5 + size / 2.
RandomCube(px, pz, size, color) ==
    [pos |-> <<H(px), (0 - 3) + (H(size) \div 2), H(pz)>>, size |-> <<H(size)>>,
     color |-> color]
\* Some of the cubes random.uniform / random.randint can give.
RandomCubes == {RandomCube(-70, 70, 3, <<200, 255, 200>>),
                RandomCube(70, -70, 10, <<255, 200, 255>>)}
\* generate_random_world_cubes(count): the ground, then count random cubes.
GeneratedWorlds(count) ==
    {<<Ground>> \o s : s \in [1..count -> RandomCubes]}

\* Cube.__init__: a scalar size becomes (size, size, size).
Cube(position, size, color) ==
    [position |-> position,
     size |-> IF Len(size) = 1 THEN <<size[1], size[1], size[1]>> ELSE size,
     color |-> color]
\* The loop of Engine3D.run that builds server_cubes from server_response['cubes'].
CubesOf(cubes) == [i \in 1..Len(cubes) |-> Cube(cubes[i].pos, cubes[i].size, cubes[i].color)]

\* --------------------------------------------------------- players table
EmptyTable == << >>
\* players[player_id] = {'pos': [0, 5, 0], 'color': player_color, 'name': player_name}
RegisterPlayer(ps, id, color, name) ==
    [i \in (DOMAIN ps) \cup {id} |->
        IF i = id THEN [pos |-> SpawnPos, color |-> color, name |-> name] ELSE ps[i]]
\* The write lost: the table keeps the old position.
WritePos_Lost(ps, id, pos) == ps
\* The position written to every entry of the table.
WritePos_All(ps, id, pos) == [i \in DOMAIN ps |-> [ps[i] EXCEPT !.pos = pos]]
\* players[player_id]['pos'] = data['pos']
WritePos(ps, id, pos) == [ps EXCEPT ![id].pos = pos]
\* The whole table cleared instead of the one entry.
RemovePlayer_Clear(ps, id) == EmptyTable
\* if player_id in players: del players[player_id]
RemovePlayer(ps, id) == [i \in (DOMAIN ps) \ {id} |-> ps[i]]
\* The reply as it was before the cubes were added to it: the players only.
Snapshot_PlayersOnly(ps, cubes) == [type |-> "reply", players |-> ps, cubes |-> << >>]
\* reply = {'players': players, 'cubes': world_cubes}, as pickle.dumps serialises it.
Snapshot(ps, cubes) == [type |-> "reply", players |-> ps, cubes |-> cubes]
\* The increment forgotten: every connection is handed the same id.
NextPlayerId_NoIncrement(counter) == counter
\* player_id_counter += 1
NextPlayerId(counter) == counter + 1

IdMsg(id) == [type |-> "id", id |-> id]
NameMsg(name) == [type |-> "name", name |-> name]
UpdateMsg(pos) == [type |-> "update", pos |-> pos]

VARIABLES
    \* server.py
    main_pc,            \* the main thread: "generate", "listen", "accept", "increment", "stopped"
    player_id_counter,
    world_cubes,
    players,
    accepted,           \* connections accepted so far (1..accepted have a handler)
    hpc,                \* threaded_client of each connection: where it is
    hid,                \* its player_id argument
    \* the connections
    nconns,             \* connections established so far, in the order of the listen queue
    owner,              \* the client process of each
    c2s, s2c,           \* data sent and not yet received, per direction
    client_closed, server_closed,
    link,
    faults,             \* failures of the environment so far
    \* engine.py, per client process
    game_state, net, player_id, world_initialized, server_cubes,
    position,           \* Engine3D.player.position as it is sent ({'pos': ...})
    cpc,                \* "frame", or blocked in "connect_recv" / "send_recv", or "crashed"
    \* history
    roster_at_send,     \* while a client waits for a reply: the server ids of the
                        \* clients that were in game when it sent the update
    \* engine.py, the Engine3D whose loop, camera and physics are followed (Local)
    run_pc,             \* Engine3D.run: "tick" (at clock.tick) or "events" (in the for loop)
    events,             \* the events of pygame.event.get() not yet handled
    camera,             \* Engine3D.camera: distance, yaw, pitch, position
    player_position,    \* Engine3D.player.position, in thousandths
    player_x_velocity, player_y_velocity, player_z_velocity,
    is_grounded,
    client_players,     \* Engine3D.players: the roster of the last reply
    \* engine.py, the drawing of one frame (camera space, in tenths)
    draw_pc,            \* "idle", "faces" (in the loop of _draw_scene) or "nametags"
    all_faces,          \* _draw_scene: the list all_faces, after the sort
    face_index,         \* the position of the loop "for face in all_faces"
    clipped_face,       \* clipped_face of the face handled last
    face_outcome,       \* how the loop left that face: "culled", "dropped",
                        \* "unprojected" or "drawn"
    drawn,              \* the polygons given to pygame.draw.polygon, in order
    nametags            \* the name tags blitted by _draw_nametags, in order

server_vars == <<main_pc, player_id_counter, world_cubes, players, accepted, hpc, hid>>
conn_vars == <<nconns, owner, c2s, s2c, client_closed, server_closed, link, faults>>
client_vars == <<game_state, net, player_id, world_initialized, server_cubes, position, cpc>>
history_vars == <<roster_at_send>>
loop_vars == <<run_pc, events>>
physics_vars == <<player_position, player_x_velocity, player_y_velocity,
                  player_z_velocity, is_grounded>>
draw_vars == <<draw_pc, all_faces, face_index, clipped_face, face_outcome, drawn,
               nametags>>
engine_vars == <<loop_vars, camera, physics_vars, client_players, draw_vars>>
net_vars == <<server_vars, conn_vars, client_vars, history_vars>>
vars == <<net_vars, engine_vars>>

\* ------------------------------------------------------ the local engine
\* The Engine3D whose run loop, camera and physics step are followed step by
\* step.  Its positions and velocities are kept in thousandths of a unit (the
\* source zeroes a horizontal velocity under 0.001), camera angles in fifths of
\* a degree (Camera.update adds 0.2 degree for one unit of mouse movement).
Local == "A"
\* A length of the cube lists (half units) in thousandths.
Thousandths(h) == 500 * h

\* self.gravity = 0.035, self.jump_strength = 0.8; accel = 0.05
gravity == 35
jump_strength == 800
accel == 50
\* v *= self.friction (0.9), then if abs(v) < 0.001: v = 0
Friction(v) == IF v >= 0 THEN (9 * v) \div 10 ELSE 0 - ((9 * (0 - v)) \div 10)

\* Camera: self.min_distance, self.max_distance = 5, 40; self.zoom_speed = 1.0
min_distance == 5
max_distance == 40
zoom_speed == 1
\* max(-89, min(89, pitch)), in fifths of a degree
PitchLimit == 5 * 89
Min(a, b) == IF a <= b THEN a ELSE b
Max(a, b) == IF a >= b THEN a ELSE b
\* pivot_point - distance * (cos(pitch)cos(yaw), sin(pitch), cos(pitch)sin(yaw)):
\* the position Camera.update computes, kept as the values it is computed from
\* (relative to the pivot point).
CameraOffset(distance, yaw, pitch) == [distance |-> distance, yaw |-> yaw, pitch |-> pitch]
\* Camera.__init__: yaw -90, pitch 0, distance 15, position (0, 5, -15), which is
\* 15 from the pivot point (0, 5, 0) that Engine3D.__init__ gives it.
NewCamera ==
    [distance |-> 15, yaw |-> 5 * (0 - 90), pitch |-> 0,
     position |-> CameraOffset(15, 5 * (0 - 90), 0)]
\* The update without the clamp of the pitch.
CameraUpdate_NoClamp(cam, mouse_dx, mouse_dy) ==
    [cam EXCEPT !.yaw = @ + mouse_dx, !.pitch = @ - mouse_dy,
                !.position = CameraOffset(cam.distance, cam.yaw + mouse_dx,
                                          cam.pitch - mouse_dy)]
\* Camera.update(mouse_dx, mouse_dy); self.target is the player, never None.
CameraUpdate(cam, mouse_dx, mouse_dy) ==
    LET yaw == cam.yaw + mouse_dx
        pitch == Max(0 - PitchLimit, Min(PitchLimit, cam.pitch - mouse_dy))
    IN [cam EXCEPT !.yaw = yaw, !.pitch = pitch,
                   !.position = CameraOffset(cam.distance, yaw, pitch)]
\* self.camera.distance = max(min_distance, min(max_distance, distance))
ClampDistance(cam) ==
    [cam EXCEPT !.distance = Max(min_distance, Min(max_distance, cam.distance))]

\* math.cos / math.sin of a yaw that is a multiple of 90 degrees (the mouse
\* movements followed turn by quarter turns): 1, 0 or -1; the 6e-17 that
\* math.cos(radians(-90)) gives is zeroed with the velocity it is added to.
QuarterTurns(yaw) == (yaw \div (5 * 90)) % 4
Cos(yaw) == CASE QuarterTurns(yaw) = 0 -> 1 [] QuarterTurns(yaw) = 2 -> 0 - 1 [] OTHER -> 0
Sin(yaw) == CASE QuarterTurns(yaw) = 1 -> 1 [] QuarterTurns(yaw) = 3 -> 0 - 1 [] OTHER -> 0

\* A cube of the cube lists in thousandths.
InThousandths(cube) ==
    [position |-> [i \in 1..3 |-> Thousandths(cube.position[i])],
     size |-> [i \in 1..3 |-> Thousandths(cube.size[i])],
     color |-> cube.color]
\* self.player = Cube(position=..., size=2, color=BLUE) at a position
PlayerCube(pos) == [position |-> pos, size |-> <<2000, 2000, 2000>>, color |-> <<0, 0, 255>>]
\* self.static_platforms = [Cube((0, -2, 0), (150, 1, 150), GRASS_GREEN)]
static_platforms == <<Cube(Ground.pos, Ground.size, GRASS_GREEN)>>
\* all_platforms = self.static_platforms + self.server_cubes
AllPlatforms(cubes) ==
    [i \in 1..(Len(static_platforms) + Len(cubes)) |->
        InThousandths((static_platforms \o cubes)[i])]

\* Engine3D.check_collision: the six strict inequalities, on doubled lengths
check_collision(c1, c2) ==
    /\ 2 * c1.position[1] - c1.size[1] < 2 * c2.position[1] + c2.size[1]
    /\ 2 * c1.position[1] + c1.size[1] > 2 * c2.position[1] - c2.size[1]
    /\ 2 * c1.position[2] - c1.size[2] < 2 * c2.position[2] + c2.size[2]
    /\ 2 * c1.position[2] + c1.size[2] > 2 * c2.position[2] - c2.size[2]
    /\ 2 * c1.position[3] - c1.size[3] < 2 * c2.position[3] + c2.size[3]
    /\ 2 * c1.position[3] + c1.size[3] > 2 * c2.position[3] - c2.size[3]
\* for p in obstacles: if self.check_collision(self.player, p): ...; break
\* the index of the first obstacle the cube overlaps, 0 when there is none
FirstHit(cube, obstacles) ==
    IF \E i \in 1..Len(obstacles) : check_collision(cube, obstacles[i])
    THEN CHOOSE i \in 1..Len(obstacles) :
            /\ check_collision(cube, obstacles[i])
            /\ \A j \in 1..(i - 1) : ~check_collision(cube, obstacles[j])
    ELSE 0

\* for p_id, p_data in self.players.items(): if p_id != self.player_id:
\* Cube(position=p_data['pos'], size=self.player.size), in the order of the
\* dict, which is the order of registration, by increasing id.
RECURSIVE OtherPlayerCubes(_, _)
OtherPlayerCubes(ps, me) ==
    LET ids == (DOMAIN ps) \ {me} IN
    IF ids = {} THEN << >>
    ELSE LET last == CHOOSE i \in ids : \A j \in ids : j <= i
             pos == [i \in 1..3 |-> Thousandths(ps[last].pos[i])]
         IN Append(OtherPlayerCubes([i \in (DOMAIN ps) \ {last} |-> ps[i]], me),
                   PlayerCube(pos))

\* The first lines of the physics step: the keys held accelerate the player
\* along the camera's yaw, then friction.  st is the player: pos, vx, vy, vz,
\* grounded.
Accelerate(st, keys, yaw) ==
    LET k(key) == IF key \in keys THEN 1 ELSE 0
        ax == (k("w") - k("s")) * Cos(yaw) * accel + (k("a") - k("d")) * Sin(yaw) * accel
        az == (k("w") - k("s")) * Sin(yaw) * accel + (k("d") - k("a")) * Cos(yaw) * accel
    IN [st EXCEPT !.vx = Friction(@ + ax), !.vz = Friction(@ + az)]

\* One horizontal axis (1 is x, 3 is z): the player moves by its velocity; an
\* overlap with a platform, and then with another player's cube, puts the
\* coordinate back to the old one and zeroes the velocity.
MoveAxis(st, axis, platforms, others) ==
    LET v == IF axis = 1 THEN st.vx ELSE st.vz
        moved == [st.pos EXCEPT ![axis] = @ + v]
        hit1 == FirstHit(PlayerCube(moved), platforms) # 0
        hit2 == FirstHit(PlayerCube(IF hit1 THEN st.pos ELSE moved), others) # 0
    IN IF hit1 \/ hit2
       THEN IF axis = 1 THEN [st EXCEPT !.vx = 0] ELSE [st EXCEPT !.vz = 0]
       ELSE [st EXCEPT !.pos = moved]

\* The snap of the vertical axis on an overlap with obstacle p: onto p when the
\* player is not rising (and it is grounded), under p when it is.
SnapY(st, p) ==
    IF st.vy <= 0
    THEN [st EXCEPT !.pos[2] = (2 * p.position[2] + p.size[2] + PlayerCube(st.pos).size[2]) \div 2,
                    !.vy = 0, !.grounded = TRUE]
    ELSE [st EXCEPT !.pos[2] = (2 * p.position[2] - p.size[2] - PlayerCube(st.pos).size[2]) \div 2,
                    !.vy = 0]
\* for p in obstacles: if check_collision(player, p): snap; break
SnapOnFirstHit(st, obstacles) ==
    LET hit == FirstHit(PlayerCube(st.pos), obstacles)
    IN IF hit # 0 THEN SnapY(st, obstacles[hit]) ELSE st
\* The vertical axis: gravity, the move, is_grounded = False, then the snap on
\* the first platform overlapped and on the first other player overlapped.
MoveY(st, platforms, others) ==
    CHOOSE r \in {SnapOnFirstHit(s1, others) :
                     s1 \in {SnapOnFirstHit(s0, platforms) :
                        s0 \in {[st EXCEPT !.vy = @ - gravity,
                                           !.pos[2] = @ + (st.vy - gravity),
                                           !.grounded = FALSE]}}} : TRUE

\* Engine3D._update_physics_and_input from accel = 0.05 on: keys are the keys
\* held, platforms is all_platforms and others the cubes of the other players
\* of self.players.  (Each stage is computed once, from the result of the one
\* before.)
PhysicsStep(st, keys, yaw, platforms, others) ==
    CHOOSE r \in {MoveY(sz, platforms, others) :
                     sz \in {MoveAxis(sx, 3, platforms, others) :
                        sx \in {MoveAxis(sa, 1, platforms, others) :
                           sa \in {Accelerate(st, keys, yaw)}}}} : TRUE

\* Engine3D.__init__, the part kept in the variables of the local engine
EngineInit ==
    /\ run_pc = "tick"
    /\ events = << >>
    /\ camera = NewCamera
    /\ player_position = <<0, 5000, 0>>
    /\ player_x_velocity = 0
    /\ player_y_velocity = 0
    /\ player_z_velocity = 0
    /\ is_grounded = FALSE
    /\ client_players = EmptyTable
    /\ draw_pc = "idle"
    /\ all_faces = << >>
    /\ face_index = 1
    /\ clipped_face = << >>
    /\ face_outcome = "none"
    /\ drawn = << >>
    /\ nametags = << >>

Conns == 1..MaxConns

Init ==
    /\ main_pc = "generate"
    /\ player_id_counter = FirstPlayerId
    /\ world_cubes = << >>
    /\ players = EmptyTable
    /\ accepted = 0
    /\ hpc = [c \in Conns |-> "none"]
    /\ hid = [c \in Conns |-> 0]
    /\ nconns = 0
    /\ owner = [c \in Conns |-> "A"]
    /\ c2s = [c \in Conns |-> << >>]
    /\ s2c = [c \in Conns |-> << >>]
    /\ client_closed = [c \in Conns |-> FALSE]
    /\ server_closed = [c \in Conns |-> FALSE]
    /\ link = [c \in Conns |-> "up"]
    /\ faults = 0
    /\ game_state = [k \in Clients |-> "main_menu"]
    /\ net = [k \in Clients |-> None]
    /\ player_id = [k \in Clients |-> NoPlayerId]
    /\ world_initialized = [k \in Clients |-> FALSE]
    /\ server_cubes = [k \in Clients |-> << >>]
    /\ position = [k \in Clients |-> SpawnPos]
    /\ cpc = [k \in Clients |-> "frame"]
    /\ roster_at_send = [k \in Clients |-> {}]
    /\ EngineInit

\* ------------------------------------------------------------ socket calls
\* What a blocking recv followed by pickle.loads gives: "data" (the head of the
\* queue), "block" (nothing to read yet), or the exception raised: the path's
\* error, or EOFError when the peer has closed (recv returns b'').
RecvOutcome(queue, peer_closed, lnk) ==
    IF lnk # "up" THEN lnk
    ELSE IF queue # << >> THEN "data"
    ELSE IF peer_closed THEN "EOFError"
    ELSE "block"
\* What is left to read after conn.recv(2048) / client.recv(2048 * 4) followed by
\* pickle.loads: TCP is a byte stream, so recv returns every byte that has arrived
\* (all the messages queued, each far shorter than the buffer), and pickle.loads
\* decodes the first pickle of the buffer and ignores the bytes after it.
AfterRecv(queue) == << >>

\* The data never leaves: nothing is queued.
Sent_Nothing(queue, peer_closed, msg) == queue
\* send / sendall on a path that is up: the data is queued, or discarded when the
\* peer has closed (the first send after the peer's close succeeds).
Sent(queue, peer_closed, msg) == IF peer_closed THEN queue ELSE Append(queue, msg)

Listening == main_pc \in {"accept", "increment"}
HandlerLive(c) == hpc[c] \in {"send_id", "recv_name", "recv", "reply"}

\* ------------------------------------------------------------ server.py
\* generate_random_world_cubes(), line 100
GenerateWorld ==
    /\ main_pc = "generate"
    /\ \E w \in GeneratedWorlds(NumCubes) : world_cubes' = w
    /\ main_pc' = "listen"
    /\ UNCHANGED <<player_id_counter, players, accepted, hpc, hid>>
    /\ UNCHANGED <<conn_vars, client_vars, history_vars>>
    /\ UNCHANGED engine_vars

\* s.listen(), line 101
Listen ==
    /\ main_pc = "listen"
    /\ main_pc' = "accept"
    /\ UNCHANGED <<player_id_counter, world_cubes, players, accepted, hpc, hid>>
    /\ UNCHANGED <<conn_vars, client_vars, history_vars>>
    /\ UNCHANGED engine_vars

\* conn, addr = s.accept(); start_new_thread(threaded_client, (conn, player_id_counter))
Accept ==
    /\ main_pc = "accept"
    /\ accepted < nconns
    /\ accepted' = accepted + 1
    /\ hid' = [hid EXCEPT ![accepted + 1] = player_id_counter]
    /\ hpc' = [hpc EXCEPT ![accepted + 1] = "send_id"]
    /\ main_pc' = "increment"
    /\ UNCHANGED <<player_id_counter, world_cubes, players>>
    /\ UNCHANGED <<conn_vars, client_vars, history_vars>>
    /\ UNCHANGED engine_vars

\* player_id_counter += 1
Increment ==
    /\ main_pc = "increment"
    /\ player_id_counter' = NextPlayerId(player_id_counter)
    /\ main_pc' = "accept"
    /\ UNCHANGED <<world_cubes, players, accepted, hpc, hid>>
    /\ UNCHANGED <<conn_vars, client_vars, history_vars>>
    /\ UNCHANGED engine_vars

\* threaded_client, step 1: conn.send(pickle.dumps(player_id)), outside any try.
HandlerSendId(c) ==
    /\ hpc[c] = "send_id"
    /\ IF link[c] # "up"
       THEN /\ hpc' = [hpc EXCEPT ![c] = "crashed_send_id"]
            /\ UNCHANGED s2c
       ELSE /\ s2c' = [s2c EXCEPT ![c] = Sent(s2c[c], client_closed[c], IdMsg(hid[c]))]
            /\ hpc' = [hpc EXCEPT ![c] = "recv_name"]
    /\ UNCHANGED <<main_pc, player_id_counter, world_cubes, players, accepted, hid>>
    /\ UNCHANGED <<nconns, owner, c2s, client_closed, server_closed, link, faults>>
    /\ UNCHANGED <<client_vars, history_vars>>
    /\ UNCHANGED engine_vars

\* threaded_client, steps 2 and 3: receive the name; on a caught exception close
\* and return, on any other exception the thread dies; else register the player.
HandlerHandshake(c) ==
    /\ hpc[c] = "recv_name"
    /\ LET out == RecvOutcome(c2s[c], client_closed[c], link[c]) IN
       /\ out # "block"
       /\ IF out = "data"
          THEN /\ \E color \in PlayerColors :
                    players' = RegisterPlayer(players, hid[c], color, Head(c2s[c]).name)
               /\ c2s' = [c2s EXCEPT ![c] = AfterRecv(c2s[c])]
               /\ hpc' = [hpc EXCEPT ![c] = "recv"]
               /\ UNCHANGED server_closed
          ELSE /\ IF HandshakeCaught(out)
                  THEN /\ server_closed' = [server_closed EXCEPT ![c] = TRUE]
                       /\ hpc' = [hpc EXCEPT ![c] = "abandoned"]
                  ELSE /\ hpc' = [hpc EXCEPT ![c] = "crashed_handshake"]
                       /\ UNCHANGED server_closed
               /\ UNCHANGED <<players, c2s>>
    /\ UNCHANGED <<main_pc, player_id_counter, world_cubes, accepted, hid>>
    /\ UNCHANGED <<nconns, owner, s2c, client_closed, link, faults>>
    /\ UNCHANGED <<client_vars, history_vars>>
    /\ UNCHANGED engine_vars

\* threaded_client, step 5: del players[player_id] if present; conn.close().
\* The exception exc has left the loop: caught, the cleanup runs; not caught, the
\* thread dies where it is.
HandlerLeaveLoop(c, exc) ==
    IF LoopCaught(exc)
    THEN /\ players' = RemovePlayer(players, hid[c])
         /\ server_closed' = [server_closed EXCEPT ![c] = TRUE]
         /\ hpc' = [hpc EXCEPT ![c] = "cleaned"]
    ELSE /\ hpc' = [hpc EXCEPT ![c] = "crashed_loop"]
         /\ UNCHANGED <<players, server_closed>>

\* threaded_client, step 4, first half: data = pickle.loads(conn.recv(2048));
\* players[player_id]['pos'] = data['pos'] (data is never empty: no break).
HandlerRecv(c) ==
    /\ hpc[c] = "recv"
    /\ LET out == RecvOutcome(c2s[c], client_closed[c], link[c]) IN
       /\ out # "block"
       /\ IF out = "data"
          THEN /\ players' = WritePos(players, hid[c], Head(c2s[c]).pos)
               /\ c2s' = [c2s EXCEPT ![c] = AfterRecv(c2s[c])]
               /\ hpc' = [hpc EXCEPT ![c] = "reply"]
               /\ UNCHANGED server_closed
          ELSE /\ HandlerLeaveLoop(c, out)
               /\ UNCHANGED c2s
    /\ UNCHANGED <<main_pc, player_id_counter, world_cubes, accepted, hid>>
    /\ UNCHANGED <<nconns, owner, s2c, client_closed, link, faults>>
    /\ UNCHANGED <<client_vars, history_vars>>
    /\ UNCHANGED engine_vars

\* threaded_client, step 4, second half: conn.sendall(pickle.dumps(reply)).
HandlerReply(c) ==
    /\ hpc[c] = "reply"
    /\ IF link[c] # "up"
       THEN /\ HandlerLeaveLoop(c, link[c])
            /\ UNCHANGED s2c
       ELSE /\ s2c' = [s2c EXCEPT ![c] =
                          Sent(s2c[c], client_closed[c], Snapshot(players, world_cubes))]
            /\ hpc' = [hpc EXCEPT ![c] = "recv"]
            /\ UNCHANGED <<players, server_closed>>
    /\ UNCHANGED <<main_pc, player_id_counter, world_cubes, accepted, hid>>
    /\ UNCHANGED <<nconns, owner, c2s, client_closed, link, faults>>
    /\ UNCHANGED <<client_vars, history_vars>>
    /\ UNCHANGED engine_vars

\* The server process is stopped (the accept loop has no exit of its own): every
\* thread ends and every socket is closed by the system; a connection with data
\* the server has not read, or not yet accepted, is reset instead.
ServerStop ==
    /\ Listening
    /\ faults < MaxFaults
    /\ faults' = faults + 1
    /\ main_pc' = "stopped"
    /\ hpc' = [c \in Conns |-> IF HandlerLive(c) THEN "killed" ELSE hpc[c]]
    /\ server_closed' = [c \in Conns |-> c <= nconns]
    /\ link' = [c \in Conns |->
                  IF c <= nconns /\ link[c] = "up" /\ (c2s[c] # << >> \/ c > accepted)
                  THEN "ConnectionResetError" ELSE link[c]]
    /\ UNCHANGED <<player_id_counter, world_cubes, players, accepted, hid>>
    /\ UNCHANGED <<nconns, owner, c2s, s2c, client_closed>>
    /\ UNCHANGED <<client_vars, history_vars>>
    /\ UNCHANGED engine_vars

\* The path of a connection in use breaks: the next socket call on it raises exc.
LinkFail(c, exc) ==
    /\ c <= nconns
    /\ link[c] = "up"
    /\ ~client_closed[c] /\ ~server_closed[c]
    /\ faults < MaxFaults
    /\ faults' = faults + 1
    /\ link' = [link EXCEPT ![c] = exc]
    /\ UNCHANGED <<server_vars, client_vars, history_vars>>
    /\ UNCHANGED <<nconns, owner, c2s, s2c, client_closed, server_closed>>
    /\ UNCHANGED engine_vars

\* ------------------------------------------------------------ engine.py
InGame(k) == game_state[k] = "in_game_multiplayer"
\* The server ids of the other clients whose connect has returned and that are in game.
PeersInGame(k) == {player_id[j] : j \in {i \in Clients \ {k} : InGame(i)}}

\* The return to the menu that keeps the world of the session.
return_to_menu_KeepWorld(k) ==
    /\ client_closed' = IF net[k] # None
                        THEN [client_closed EXCEPT ![net[k]] = TRUE]
                        ELSE client_closed
    /\ net' = [net EXCEPT ![k] = None]
    /\ game_state' = [game_state EXCEPT ![k] = "main_menu"]
    /\ UNCHANGED <<world_initialized, server_cubes>>
\* The return to the menu that keeps the connection.
return_to_menu_KeepNet(k) ==
    /\ UNCHANGED <<client_closed, net>>
    /\ game_state' = [game_state EXCEPT ![k] = "main_menu"]
    /\ world_initialized' = [world_initialized EXCEPT ![k] = FALSE]
    /\ server_cubes' = [server_cubes EXCEPT ![k] = << >>]
\* Engine3D.return_to_menu: disconnect and drop the connection if there is one,
\* main menu, world_initialized = False, server_cubes.clear().
return_to_menu(k) ==
    /\ client_closed' = IF net[k] # None
                        THEN [client_closed EXCEPT ![net[k]] = TRUE]
                        ELSE client_closed
    /\ net' = [net EXCEPT ![k] = None]
    /\ game_state' = [game_state EXCEPT ![k] = "main_menu"]
    /\ world_initialized' = [world_initialized EXCEPT ![k] = FALSE]
    /\ server_cubes' = [server_cubes EXCEPT ![k] = << >>]

\* The result not tested: the client enters the game with whatever connect returned.
connect_result_Unchecked(k, c, result) ==
    /\ player_id' = [player_id EXCEPT ![k] = result]
    /\ game_state' = [game_state EXCEPT ![k] = "in_game_multiplayer"]
    /\ net' = [net EXCEPT ![k] = c]
\* Engine3D.connect_to_server after self.net.connect(name) has returned result
\* on connection c: the id (in game) or None (self.net = None).
connect_result(k, c, result) ==
    IF result # None
    THEN /\ player_id' = [player_id EXCEPT ![k] = result]
         /\ game_state' = [game_state EXCEPT ![k] = "in_game_multiplayer"]
         /\ net' = [net EXCEPT ![k] = c]
    ELSE /\ net' = [net EXCEPT ![k] = None]
         /\ UNCHANGED <<player_id, game_state>>

\* An exception that leaves Engine3D.run: the process ends, the system closes
\* its socket.
client_crash(k) ==
    /\ cpc' = [cpc EXCEPT ![k] = "crashed"]
    /\ client_closed' = IF net[k] # None
                        THEN [client_closed EXCEPT ![net[k]] = TRUE]
                        ELSE client_closed

\* Engine3D.show_multiplayer_menu (the Multiplayer button)
ShowMultiplayerMenu(k) ==
    /\ cpc[k] = "frame"
    /\ game_state[k] = "main_menu"
    /\ game_state' = [game_state EXCEPT ![k] = "multiplayer_menu"]
    /\ UNCHANGED <<net, player_id, world_initialized, server_cubes, position, cpc>>
    /\ UNCHANGED <<server_vars, conn_vars, roster_at_send>>
    /\ UNCHANGED engine_vars

\* The Back button of the multiplayer menu: return_to_menu
Back(k) ==
    /\ cpc[k] = "frame"
    /\ game_state[k] = "multiplayer_menu"
    /\ return_to_menu(k)
    /\ UNCHANGED <<player_id, position, cpc>>
    /\ UNCHANGED <<server_vars, roster_at_send>>
    /\ UNCHANGED <<nconns, owner, c2s, s2c, server_closed, link, faults>>
    /\ UNCHANGED engine_vars

\* connect_to_server, Network.connect: self.client.connect(self.addr) raises exc
\* (refused when the server does not listen; unreachable at any time).
ConnectRefused(k, exc) ==
    /\ cpc[k] = "frame"
    /\ game_state[k] = "multiplayer_menu"
    /\ exc = "ConnectionRefusedError" => ~Listening
    /\ IF IsSocketError(exc)
       THEN /\ connect_result(k, None, None)
            /\ UNCHANGED <<cpc, client_closed>>
       ELSE /\ client_crash(k)
            /\ UNCHANGED <<net, player_id, game_state>>
    /\ UNCHANGED <<world_initialized, server_cubes, position>>
    /\ UNCHANGED <<server_vars, roster_at_send>>
    /\ UNCHANGED <<nconns, owner, c2s, s2c, server_closed, link, faults>>
    /\ UNCHANGED engine_vars

\* connect_to_server, Network.connect: self.net = Network(ip); the connection is
\* established (it waits in the listen queue); the client blocks in recv.
ConnectEstablish(k) ==
    /\ cpc[k] = "frame"
    /\ game_state[k] = "multiplayer_menu"
    /\ Listening
    /\ nconns < MaxConns
    /\ nconns' = nconns + 1
    /\ owner' = [owner EXCEPT ![nconns + 1] = k]
    /\ net' = [net EXCEPT ![k] = nconns + 1]
    /\ cpc' = [cpc EXCEPT ![k] = "connect_recv"]
    /\ UNCHANGED <<game_state, player_id, world_initialized, server_cubes, position>>
    /\ UNCHANGED <<server_vars, roster_at_send>>
    /\ UNCHANGED <<c2s, s2c, client_closed, server_closed, link, faults>>
    /\ UNCHANGED engine_vars

\* Network.connect: self.player_id = pickle.loads(self.client.recv(2048));
\* self.client.send(pickle.dumps(name)); return self.player_id; except
\* socket.error: return None.  Then the rest of connect_to_server.
ConnectRecvId(k) ==
    /\ cpc[k] = "connect_recv"
    /\ LET c == net[k]
           out == RecvOutcome(s2c[c], server_closed[c], link[c]) IN
       /\ out # "block"
       /\ IF out = "data"
          THEN /\ s2c' = [s2c EXCEPT ![c] = AfterRecv(s2c[c])]
               /\ c2s' = [c2s EXCEPT ![c] = Sent(c2s[c], server_closed[c], NameMsg(k))]
               /\ connect_result(k, c, Head(s2c[c]).id)
               /\ cpc' = [cpc EXCEPT ![k] = "frame"]
               /\ UNCHANGED client_closed
          ELSE /\ IF IsSocketError(out)
                  THEN /\ connect_result(k, c, None)
                       /\ cpc' = [cpc EXCEPT ![k] = "frame"]
                       /\ UNCHANGED client_closed
                  ELSE /\ client_crash(k)
                       /\ UNCHANGED <<net, player_id, game_state>>
               /\ UNCHANGED <<s2c, c2s>>
    /\ UNCHANGED <<world_initialized, server_cubes, position>>
    /\ UNCHANGED <<server_vars, roster_at_send>>
    /\ UNCHANGED <<nconns, owner, server_closed, link, faults>>
    /\ UNCHANGED engine_vars

\* _handle_game_input: K_ESCAPE in game: return_to_menu
Esc(k) ==
    /\ cpc[k] = "frame"
    /\ InGame(k)
    /\ return_to_menu(k)
    /\ UNCHANGED <<player_id, position, cpc>>
    /\ UNCHANGED <<server_vars, roster_at_send>>
    /\ UNCHANGED <<nconns, owner, c2s, s2c, server_closed, link, faults>>
    /\ UNCHANGED engine_vars

\* Engine3D.run in game: _update_physics_and_input() leaves the player at pos;
\* Network.send: self.client.send(pickle.dumps({'pos': ...})); on socket.error
\* send returns None and run calls return_to_menu.
FrameSend(k, pos) ==
    /\ cpc[k] = "frame"
    /\ InGame(k)
    /\ net[k] # None
    /\ position' = [position EXCEPT ![k] = pos]
    /\ LET c == net[k] IN
       IF link[c] # "up"
       THEN /\ IF IsSocketError(link[c])
               THEN /\ return_to_menu(k)
                    /\ UNCHANGED cpc
               ELSE /\ client_crash(k)
                    /\ UNCHANGED <<net, game_state, world_initialized, server_cubes>>
            /\ UNCHANGED <<c2s, roster_at_send>>
       ELSE /\ c2s' = [c2s EXCEPT ![c] = Sent(c2s[c], server_closed[c], UpdateMsg(pos))]
            /\ cpc' = [cpc EXCEPT ![k] = "send_recv"]
            /\ roster_at_send' = [roster_at_send EXCEPT ![k] = PeersInGame(k)]
            /\ UNCHANGED <<net, game_state, world_initialized, server_cubes, client_closed>>
    /\ UNCHANGED player_id
    /\ UNCHANGED server_vars
    /\ UNCHANGED <<nconns, owner, s2c, server_closed, link, faults>>
    /\ UNCHANGED engine_vars

\* Network.send: return pickle.loads(self.client.recv(2048 * 4)); then run: the
\* reply, once per session, builds server_cubes; None (a socket.error) is
\* "Connection to server lost": return_to_menu.  (self.players, which the reply
\* replaces, is read by the drawing and collision code only and is not kept here:
\* the roster a client receives is the players field of the reply it reads.)
FrameRecv(k) ==
    /\ cpc[k] = "send_recv"
    /\ LET c == net[k]
           out == RecvOutcome(s2c[c], server_closed[c], link[c]) IN
       /\ out # "block"
       /\ IF out = "data"
          THEN /\ s2c' = [s2c EXCEPT ![c] = AfterRecv(s2c[c])]
               /\ IF ~world_initialized[k]
                  THEN /\ server_cubes' =
                             [server_cubes EXCEPT ![k] = CubesOf(Head(s2c[c]).cubes)]
                       /\ world_initialized' = [world_initialized EXCEPT ![k] = TRUE]
                  ELSE UNCHANGED <<server_cubes, world_initialized>>
               /\ cpc' = [cpc EXCEPT ![k] = "frame"]
               /\ UNCHANGED <<net, game_state, client_closed>>
          ELSE /\ IF IsSocketError(out)
                  THEN /\ return_to_menu(k)
                       /\ cpc' = [cpc EXCEPT ![k] = "frame"]
                  ELSE /\ client_crash(k)
                       /\ UNCHANGED <<net, game_state, world_initialized, server_cubes>>
               /\ UNCHANGED s2c
    /\ roster_at_send' = [roster_at_send EXCEPT ![k] = {}]
    /\ UNCHANGED <<player_id, position>>
    /\ UNCHANGED server_vars
    /\ UNCHANGED <<nconns, owner, c2s, server_closed, link, faults>>
    /\ UNCHANGED engine_vars

\* The client process ends without return_to_menu (pygame.QUIT leaves run through
\* sys.exit(), or the process is killed while it blocks in recv): the system
\* closes its socket, with a reset when data of the server is still unread.
ClientExit(k) ==
    /\ cpc[k] # "crashed" /\ cpc[k] # "exited"
    /\ faults < MaxFaults
    /\ faults' = faults + 1
    /\ cpc' = [cpc EXCEPT ![k] = "exited"]
    /\ LET c == net[k] IN
       IF c = None
       THEN UNCHANGED <<client_closed, link>>
       ELSE IF s2c[c] # << >> /\ link[c] = "up"
            THEN /\ link' = [link EXCEPT ![c] = "ConnectionResetError"]
                 /\ UNCHANGED client_closed
            ELSE /\ client_closed' = [client_closed EXCEPT ![c] = TRUE]
                 /\ UNCHANGED link
    /\ roster_at_send' = [roster_at_send EXCEPT ![k] = {}]
    /\ UNCHANGED <<game_state, net, player_id, world_initialized, server_cubes, position>>
    /\ UNCHANGED server_vars
    /\ UNCHANGED <<nconns, owner, c2s, s2c, server_closed>>
    /\ UNCHANGED engine_vars

\* ------------------------------------------------------------ specification
\* ------------------------------------------------- engine.py, the run loop
\* The loop of Engine3D.run of the local engine, an iteration at a time: the
\* events of the frame are handled one by one, then the body of the frame runs.
\* The peer is any server: what connect returns and what each exchange returns
\* are inputs.

\* No reply: Network.send has returned None.
NoResponse == [type |-> "none"]
\* self.game_state.startswith('in_game')
StartsWithInGame(state) == state = "in_game_multiplayer"

\* The jump whatever is_grounded is: the velocity is set whenever the key is pressed.
Jump_Always(vy, grounded) == <<jump_strength, FALSE>>
\* if event.key == pygame.K_SPACE and self.is_grounded:
\*     self.player_y_velocity = self.jump_strength; self.is_grounded = False
\* Gives <<player_y_velocity, is_grounded>>.
Jump(vy, grounded) == IF grounded THEN <<jump_strength, FALSE>> ELSE <<vy, grounded>>

\* self.clock.tick(FPS); events = pygame.event.get()
PollEvents(evs) ==
    /\ run_pc = "tick"
    /\ cpc[Local] = "frame"
    /\ events' = evs
    /\ run_pc' = "events"
    /\ UNCHANGED <<net_vars, camera, physics_vars, client_players, draw_vars>>

\* One turn of "for event in events": _handle_game_input(event) in game
\* (space, escape, the mouse wheel), ui_manager.handle_events(event) in a menu
\* (the Multiplayer, Connect and Back buttons; name and result are the text of
\* the name field and what Network.connect returns).
HandleEvent(name, result) ==
    /\ run_pc = "events"
    /\ events # << >>
    /\ events' = Tail(events)
    /\ LET e == Head(events)
           k == Local
       IN IF StartsWithInGame(game_state[k])
          THEN CASE e = "K_SPACE" ->
                       /\ player_y_velocity' = Jump(player_y_velocity, is_grounded)[1]
                       /\ is_grounded' = Jump(player_y_velocity, is_grounded)[2]
                       /\ UNCHANGED <<camera, game_state, net, world_initialized, server_cubes,
                                      client_closed, player_id, nconns, owner>>
                 [] e = "K_ESCAPE" ->
                       /\ return_to_menu(k)
                       /\ UNCHANGED <<player_y_velocity, is_grounded, camera, player_id,
                                      nconns, owner>>
                 [] e = "WHEEL_UP" ->
                       /\ camera' = [camera EXCEPT !.distance = @ - zoom_speed]
                       /\ UNCHANGED <<player_y_velocity, is_grounded, game_state, net,
                                      world_initialized, server_cubes, client_closed,
                                      player_id, nconns, owner>>
                 [] e = "WHEEL_DOWN" ->
                       /\ camera' = [camera EXCEPT !.distance = @ + zoom_speed]
                       /\ UNCHANGED <<player_y_velocity, is_grounded, game_state, net,
                                      world_initialized, server_cubes, client_closed,
                                      player_id, nconns, owner>>
                 [] OTHER ->
                       UNCHANGED <<player_y_velocity, is_grounded, camera, game_state, net,
                                   world_initialized, server_cubes, client_closed,
                                   player_id, nconns, owner>>
          ELSE CASE e = "CLICK_MULTIPLAYER" /\ game_state[k] = "main_menu" ->
                       /\ game_state' = [game_state EXCEPT ![k] = "multiplayer_menu"]
                       /\ UNCHANGED <<player_y_velocity, is_grounded, camera, net,
                                      world_initialized, server_cubes, client_closed,
                                      player_id, nconns, owner>>
                 [] e = "CLICK_BACK" /\ game_state[k] = "multiplayer_menu" ->
                       /\ return_to_menu(k)
                       /\ UNCHANGED <<player_y_velocity, is_grounded, camera, player_id,
                                      nconns, owner>>
                 [] e = "CLICK_CONNECT" /\ game_state[k] = "multiplayer_menu" ->
                       IF name = ""
                       THEN UNCHANGED <<player_y_velocity, is_grounded, camera, game_state,
                                        net, world_initialized, server_cubes, client_closed,
                                        player_id, nconns, owner>>
                       ELSE /\ nconns < MaxConns
                            /\ nconns' = nconns + 1
                            /\ owner' = [owner EXCEPT ![nconns + 1] = k]
                            /\ connect_result(k, nconns + 1, result)
                            /\ UNCHANGED <<player_y_velocity, is_grounded, camera,
                                           world_initialized, server_cubes, client_closed>>
                 [] OTHER ->
                       UNCHANGED <<player_y_velocity, is_grounded, camera, game_state, net,
                                   world_initialized, server_cubes, client_closed,
                                   player_id, nconns, owner>>
    /\ UNCHANGED <<run_pc, player_position, player_x_velocity, player_z_velocity,
                   client_players, draw_vars>>
    /\ UNCHANGED <<server_vars, history_vars, c2s, s2c, server_closed, link, faults,
                   position, cpc>>

\* The body of the frame.  In a menu the interface is drawn.  In game:
\* _update_physics_and_input (Camera.update, then the clamp of the distance, then
\* the physics step), then server_response = self.net.send({'pos': ...}): a
\* reply replaces self.players and, once per session, builds server_cubes; None
\* is "Connection to server lost".
FrameBody(keys, mouse_dx, mouse_dy, response) ==
    /\ run_pc = "events"
    /\ events = << >>
    /\ run_pc' = "tick"
    /\ LET k == Local IN
       IF game_state[k] = "in_game_multiplayer"
       THEN \E cam \in {CameraUpdate(camera, mouse_dx, mouse_dy)} :
            \E st \in {PhysicsStep([pos |-> player_position, vx |-> player_x_velocity,
                                    vy |-> player_y_velocity, vz |-> player_z_velocity,
                                    grounded |-> is_grounded],
                                   keys, cam.yaw, AllPlatforms(server_cubes[k]),
                                   OtherPlayerCubes(client_players, player_id[k]))} :
               /\ camera' = ClampDistance(cam)
               /\ player_position' = st.pos
               /\ player_x_velocity' = st.vx
               /\ player_y_velocity' = st.vy
               /\ player_z_velocity' = st.vz
               /\ is_grounded' = st.grounded
               /\ IF net[k] = None
                  THEN UNCHANGED <<client_players, game_state, net, world_initialized,
                                   server_cubes, client_closed>>
                  ELSE IF response.type = "reply"
                  THEN /\ client_players' = response.players
                       /\ IF ~world_initialized[k] /\ "cubes" \in DOMAIN response
                          THEN /\ server_cubes' =
                                     [server_cubes EXCEPT ![k] = CubesOf(response.cubes)]
                               /\ world_initialized' =
                                     [world_initialized EXCEPT ![k] = TRUE]
                          ELSE UNCHANGED <<server_cubes, world_initialized>>
                       /\ UNCHANGED <<game_state, net, client_closed>>
                  ELSE /\ return_to_menu(k)
                       /\ UNCHANGED client_players
       ELSE UNCHANGED <<camera, physics_vars, client_players, game_state, net,
                        world_initialized, server_cubes, client_closed>>
    /\ UNCHANGED <<events, draw_vars>>
    /\ UNCHANGED <<server_vars, history_vars, nconns, owner, c2s, s2c, server_closed, link,
                   faults, player_id, position, cpc>>

ServerNext ==
    \/ GenerateWorld
    \/ Listen
    \/ Accept
    \/ Increment
    \/ \E c \in Conns : HandlerSendId(c)
    \/ \E c \in Conns : HandlerHandshake(c)
    \/ \E c \in Conns : HandlerRecv(c)
    \/ \E c \in Conns : HandlerReply(c)

ClientNext ==
    \/ \E k \in Clients : ShowMultiplayerMenu(k)
    \/ \E k \in Clients : Back(k)
    \/ \E k \in Clients : ConnectEstablish(k)
    \/ \E k \in Clients : ConnectRecvId(k)
    \/ \E k \in Clients : Esc(k)
    \/ \E k \in Clients : \E pos \in Positions : FrameSend(k, pos)
    \/ \E k \in Clients : FrameRecv(k)

FailureNext ==
    \/ ServerStop
    \/ \E k \in Clients : ClientExit(k)
    \/ \E c \in Conns : \E exc \in LinkErrors : LinkFail(c, exc)
    \/ \E k \in Clients : \E exc \in {"ConnectionRefusedError", "TimeoutError"} :
          ConnectRefused(k, exc)

Next == ServerNext \/ ClientNext \/ FailureNext

Spec == Init /\ [][Next]_vars

\* No failure on either side: the threads of the server and a blocked recv of a
\* client take their step when they can (the system schedules every thread, and
\* a recv returns once there is something to read).
LiveNext == ServerNext \/ ClientNext
HandlerStep(c) ==
    HandlerSendId(c) \/ HandlerHandshake(c) \/ HandlerRecv(c) \/ HandlerReply(c)
LiveSpec ==
    /\ Init
    /\ [][LiveNext]_vars
    /\ WF_vars(GenerateWorld) /\ WF_vars(Listen) /\ WF_vars(Accept) /\ WF_vars(Increment)
    /\ \A c \in Conns : WF_vars(HandlerStep(c))
    /\ \A k \in Clients : WF_vars(ConnectRecvId(k)) /\ WF_vars(FrameRecv(k))

\* ------------------------------------------------------------ the camera
\* The local engine with the mouse: wheel events and vertical movements (and
\* the two clicks that take it into a game).  The peer answers every exchange.
MaxEvents == 2
CameraEvents == {"CLICK_MULTIPLAYER", "CLICK_CONNECT", "WHEEL_UP", "WHEEL_DOWN"}
EventLists(alphabet) == UNION {[1..n -> alphabet] : n \in 0..MaxEvents}
\* pygame.mouse.get_rel()[1]: up or down by a lot, or still
MouseDY == {0 - 600, 0, 600}
\* A reply of a server whose world is the ground alone, the local player on its own.
ReplyOf(cubes) ==
    Snapshot(RegisterPlayer(EmptyTable, FirstPlayerId, <<0, 0, 255>>, Local), cubes)
CameraNext ==
    \/ \E evs \in EventLists(CameraEvents) : PollEvents(evs)
    \/ HandleEvent(Local, FirstPlayerId)
    \/ \E dy \in MouseDY : FrameBody({}, 0, dy, ReplyOf(<<Ground>>))
CameraSpec == Init /\ [][CameraNext]_vars

\* ------------------------------------------------- sessions and physics
\* The local engine with the keyboard: it enters a game, jumps, leaves with
\* escape and enters a game again, on a server that may be another one (or the
\* same one started again), each with the world it has generated; an exchange
\* returns None, or a reply with or without the cubes.
GameEvents == {"CLICK_MULTIPLAYER", "CLICK_CONNECT", "K_SPACE", "K_ESCAPE"}
\* Two worlds generate_random_world_cubes can build: one with its cube far from
\* the spawn position, one with a cube of size 10 around it.
GameWorlds == {<<Ground, RandomCube(-70, 70, 3, <<200, 255, 200>>)>>,
               <<Ground, RandomCube(1, -1, 10, <<255, 200, 255>>)>>}
\* A reply without the 'cubes' key.
ReplyWithoutCubes ==
    [type |-> "reply",
     players |-> RegisterPlayer(EmptyTable, FirstPlayerId, <<0, 0, 255>>, Local)]
GameResponses == {NoResponse, ReplyWithoutCubes} \cup {ReplyOf(w) : w \in GameWorlds}
GameNext ==
    \/ \E evs \in EventLists(GameEvents) : PollEvents(evs)
    \/ HandleEvent(Local, FirstPlayerId)
    \/ \E response \in GameResponses : FrameBody({}, 0, 0, response)
GameSpec == Init /\ [][GameNext]_vars

\* The same engine on servers of src/server.py, whose every reply carries the
\* cubes: an exchange returns None or the reply of the server.
ServerResponses == {NoResponse} \cup {ReplyOf(w) : w \in GameWorlds}
PhysicsNext ==
    \/ \E evs \in EventLists(GameEvents) : PollEvents(evs)
    \/ HandleEvent(Local, FirstPlayerId)
    \/ \E response \in ServerResponses : FrameBody({}, 0, 0, response)
PhysicsSpec == Init /\ [][PhysicsNext]_vars

\* The same engine with other players in the game: a reply carries the roster
\* of the server, the local player and up to MaxOthers others, each at a position
\* its client has sent: at rest on the ground or in the air above it (in half
\* units).
MaxOthers == 2
OtherPositions == {<<1, 0 - 1, 0>>, <<0 - 1, 0, 0>>}
RECURSIVE RosterOf(_, _)
RosterOf(positions, n) ==
    IF n = 0 THEN RegisterPlayer(EmptyTable, FirstPlayerId, <<0, 0, 255>>, Local)
    ELSE WritePos(RegisterPlayer(RosterOf(positions, n - 1), FirstPlayerId + n,
                                 <<0, 0, 255>>, "B"),
                  FirstPlayerId + n, positions[n])
Rosters == {RosterOf(ps, Len(ps)) :
               ps \in UNION {[1..n -> OtherPositions] : n \in 0..MaxOthers}}
CrowdEvents == {"CLICK_MULTIPLAYER", "CLICK_CONNECT", "K_SPACE"}
CrowdNext ==
    \/ \E evs \in EventLists(CrowdEvents) : PollEvents(evs)
    \/ HandleEvent(Local, FirstPlayerId)
    \/ \E roster \in Rosters : FrameBody({}, 0, 0, Snapshot(roster, <<Ground>>))
CrowdSpec == Init /\ [][CrowdNext]_vars

\* ------------------------------------------------------ engine.py, drawing
\* The frame's drawing writes the screen only, so it is followed by its own
\* actions.  Camera-space coordinates are in tenths.  A vertex is <<x, y, z, d>>,
\* the point (x/d, y/d, z/d) with d > 0: the vertices of a face have d = 1, an
\* intersection point computed by the clipping has d = |z2 - z1|.  The lists of
\* camera-space vertices are inputs (transform_world_to_camera_space is not
\* followed), and so is the shading of a drawn face.
NEAR_CLIP_PLANE == 0 - 1
WIDTH == 1920
HEIGHT == 1080

\* int(a / b) of Python for b > 0: truncation towards zero
Trunc(a, b) == IF a >= 0 THEN a \div b ELSE 0 - ((0 - a) \div b)

NoPoint == [kind |-> "None"]
ZeroDivisionError == [kind |-> "ZeroDivisionError"]

\* Mutation of project_point: "if z > 0: return None".
project_point_Unguarded(p) ==
    IF p[3] > 0 THEN NoPoint
    ELSE IF 0 - p[3] = 0 THEN ZeroDivisionError
    ELSE [kind |-> "point",
          x |-> Trunc(400 * p[1] + (WIDTH \div 2) * (0 - p[3]), 0 - p[3]),
          y |-> Trunc((0 - 400) * p[2] + (HEIGHT \div 2) * (0 - p[3]), 0 - p[3])]

\* def project_point(self, x, y, z): None if z >= 0; else factor = 400 / -z and
\* (int(x * factor + WIDTH / 2), int(-y * factor + HEIGHT / 2)).  The division
\* 400 / -z raises ZeroDivisionError for z = 0.
project_point(p) ==
    IF p[3] >= 0 THEN NoPoint
    ELSE IF 0 - p[3] = 0 THEN ZeroDivisionError
    ELSE [kind |-> "point",
          x |-> Trunc(400 * p[1] + (WIDTH \div 2) * (0 - p[3]), 0 - p[3]),
          y |-> Trunc((0 - 400) * p[2] + (HEIGHT \div 2) * (0 - p[3]), 0 - p[3])]

\* Mutation of In: "p[2] <= NEAR_CLIP_PLANE".
In_OnPlane(p) == p[3] <= NEAR_CLIP_PLANE * p[4]

\* p1_in, p2_in: p[2] < NEAR_CLIP_PLANE
In(p) == p[3] < NEAR_CLIP_PLANE * p[4]

\* (ix, iy, NEAR_CLIP_PLANE) for t = (NEAR_CLIP_PLANE - p1[2]) / (p2[2] - p1[2]),
\* of two vertices of a face (d = 1) with p2[2] # p1[2]
Intersection(p1, p2) ==
    LET dz == p2[3] - p1[3]
        s == IF dz > 0 THEN 1 ELSE 0 - 1
    IN <<s * (p1[1] * dz + (NEAR_CLIP_PLANE - p1[3]) * (p2[1] - p1[1])),
         s * (p1[2] * dz + (NEAR_CLIP_PLANE - p1[3]) * (p2[2] - p1[2])),
         s * NEAR_CLIP_PLANE * dz,
         s * dz>>

\* Mutation of ClipEdge: an edge inside the near plane appends p1.
ClipEdge_AppendP1(p1, p2) ==
    IF In(p1) /\ In(p2) THEN <<p1>>
    ELSE IF In(p1) \/ In(p2)
    THEN IF p2[3] - p1[3] = 0 THEN << >>
         ELSE IF In(p1) THEN <<Intersection(p1, p2)>>
         ELSE <<Intersection(p1, p2), p2>>
    ELSE << >>

\* Mutation of ClipEdge: an edge that leaves the near plane appends its end too.
ClipEdge_KeepEnd(p1, p2) ==
    IF In(p1) /\ In(p2) THEN <<p2>>
    ELSE IF In(p1) \/ In(p2)
    THEN IF p2[3] - p1[3] = 0 THEN << >>
         ELSE <<Intersection(p1, p2), p2>>
    ELSE << >>

\* What one turn of the loop of clip_against_near_plane appends to clipped
ClipEdge(p1, p2) ==
    IF In(p1) /\ In(p2) THEN <<p2>>
    ELSE IF In(p1) \/ In(p2)
    THEN IF p2[3] - p1[3] = 0 THEN << >>
         ELSE IF In(p1) THEN <<Intersection(p1, p2)>>
         ELSE <<Intersection(p1, p2), p2>>
    ELSE << >>

\* The turns i .. len(poly_verts) - 1 of "for i in range(len(poly_verts))"
\* (positions from 1 here)
RECURSIVE ClipEdges(_, _)
ClipEdges(poly_verts, i) ==
    IF i > Len(poly_verts) THEN << >>
    ELSE ClipEdge(poly_verts[i], poly_verts[(i % Len(poly_verts)) + 1])
            \o ClipEdges(poly_verts, i + 1)

\* def clip_against_near_plane(self, poly_verts)
clip_against_near_plane(poly_verts) == ClipEdges(poly_verts, 1)

\* min(v[2] for v in face_verts)
MinZ(face_verts) ==
    CHOOSE z \in {face_verts[i][3] : i \in 1..Len(face_verts)} :
        \A i \in 1..Len(face_verts) : z <= face_verts[i][3]

\* The faces of one object, appended to all_faces from position nth + 1 on.
\* nth, the position at which a face was assembled, is a history field.
RECURSIVE FacesOf(_, _, _)
FacesOf(faces, color, nth) ==
    IF faces = << >> THEN << >>
    ELSE (IF Head(faces) # << >>
          THEN <<[depth |-> MinZ(Head(faces)), verts |-> Head(faces),
                  color |-> color, nth |-> nth + 1]>>
          ELSE << >>)
         \o FacesOf(Tail(faces), color,
                    IF Head(faces) # << >> THEN nth + 1 ELSE nth)

\* _draw_scene, "for obj in objects_to_draw: for face_indices in obj.faces"
RECURSIVE Assemble(_, _)
Assemble(objects, nth) ==
    IF objects = << >> THEN << >>
    ELSE LET fs == FacesOf(Head(objects).faces, Head(objects).color, nth)
         IN fs \o Assemble(Tail(objects), nth + Len(fs))

\* Mutation of Insert: the face goes before the faces of equal depth.
RECURSIVE Insert_BeforeEqual(_, _)
Insert_BeforeEqual(sorted, face) ==
    IF sorted = << >> THEN <<face>>
    ELSE IF face.depth <= Head(sorted).depth THEN <<face>> \o sorted
    ELSE <<Head(sorted)>> \o Insert_BeforeEqual(Tail(sorted), face)

\* list.sort is stable: a face goes after the faces whose key is not larger
RECURSIVE Insert(_, _)
Insert(sorted, face) ==
    IF sorted = << >> THEN <<face>>
    ELSE IF face.depth < Head(sorted).depth THEN <<face>> \o sorted
    ELSE <<Head(sorted)>> \o Insert(Tail(sorted), face)

\* all_faces.sort(key=lambda f: f["depth"])
RECURSIVE SortByDepth(_, _)
SortByDepth(faces, n) ==
    IF n = 0 THEN << >> ELSE Insert(SortByDepth(faces, n - 1), faces[n])

\* nx, ny, nz of a face, and (nx*v0[0] + ny*v0[1] + nz*v0[2]) >= 0
FacesAway(verts) ==
    LET v0 == verts[1]
        vec1 == <<verts[2][1] - v0[1], verts[2][2] - v0[2], verts[2][3] - v0[3]>>
        vec2 == <<verts[3][1] - v0[1], verts[3][2] - v0[2], verts[3][3] - v0[3]>>
        nx == vec1[2] * vec2[3] - vec1[3] * vec2[2]
        ny == vec1[3] * vec2[1] - vec1[1] * vec2[3]
        nz == vec1[1] * vec2[2] - vec1[2] * vec2[1]
    IN nx * v0[1] + ny * v0[2] + nz * v0[3] >= 0

ResetDraw ==
    /\ all_faces' = << >>
    /\ face_index' = 1
    /\ clipped_face' = << >>
    /\ face_outcome' = "none"
    /\ drawn' = << >>
    /\ nametags' = << >>

not_drawing == <<net_vars, loop_vars, camera, physics_vars, client_players>>

\* _draw_scene up to the sort: self.screen.fill(BLACK), all_faces assembled and
\* sorted
BeginDraw(objects_to_draw) ==
    /\ draw_pc = "idle"
    /\ draw_pc' = "faces"
    /\ \E assembled \in {Assemble(objects_to_draw, 0)} :
          all_faces' = SortByDepth(assembled, Len(assembled))
    /\ face_index' = 1
    /\ clipped_face' = << >>
    /\ face_outcome' = "none"
    /\ drawn' = << >>
    /\ nametags' = << >>
    /\ UNCHANGED not_drawing

\* One turn of "for face in all_faces".  (mag == 0 needs nx = ny = nz = 0, and
\* such a face is culled.)
DrawFace ==
    /\ draw_pc = "faces"
    /\ face_index <= Len(all_faces)
    /\ face_index' = face_index + 1
    /\ LET face == all_faces[face_index] IN
       IF FacesAway(face.verts)
       THEN /\ face_outcome' = "culled"
            /\ UNCHANGED <<clipped_face, drawn>>
       ELSE \E clipped \in {clip_against_near_plane(face.verts)} :
            /\ clipped_face' = clipped
            /\ IF Len(clipped) < 3
               THEN /\ face_outcome' = "dropped"
                    /\ UNCHANGED drawn
               ELSE \E projected \in {[i \in 1..Len(clipped) |-> project_point(clipped[i])]} :
                    IF \E i \in 1..Len(projected) : projected[i].kind # "point"
                    THEN /\ face_outcome' = "unprojected"
                         /\ UNCHANGED drawn
                    ELSE /\ face_outcome' = "drawn"
                         /\ drawn' = Append(drawn, [nth |-> face.nth, color |-> face.color,
                                                    points |-> projected])
    /\ UNCHANGED <<draw_pc, all_faces, nametags>>
    /\ UNCHANGED not_drawing

\* _draw_nametags, after the loop of _draw_scene: anchors are the camera-space
\* positions of the name tags, one for each entry of self.players; a tag is
\* blitted "if screen_pos".
DrawNametags(anchors) ==
    /\ draw_pc = "faces"
    /\ face_index > Len(all_faces)
    /\ draw_pc' = "flip"
    /\ nametags' = [i \in 1..Len(anchors) |->
                       LET screen_pos == project_point(anchors[i])
                       IN [anchor |-> anchors[i], screen_pos |-> screen_pos,
                           blitted |-> screen_pos.kind = "point"]]
    /\ UNCHANGED <<all_faces, face_index, clipped_face, face_outcome, drawn>>
    /\ UNCHANGED not_drawing

\* pygame.display.flip(): the frame is shown and its lists are gone
Flip ==
    /\ draw_pc = "flip"
    /\ draw_pc' = "idle"
    /\ ResetDraw
    /\ UNCHANGED not_drawing

\* The scenes drawn: one face (a triangle or a quadrilateral, in either
\* orientation) with every choice of depths, and up to MaxObjects objects of up
\* to MaxFaces faces each.
MaxObjects == 2
MaxFaces == 2
MaxTags == 2
ZValues == {0 - 30, 0 - 10, 0 - 1, 0, 10}
Corners == <<<<0 - 5, 0 - 5>>, <<5, 0 - 5>>, <<5, 5>>, <<0 - 5, 5>>>>
FaceOf(zs) == [i \in 1..Len(zs) |-> <<Corners[i][1], Corners[i][2], zs[i], 1>>]
Reversed(s) == [i \in 1..Len(s) |-> s[Len(s) + 1 - i]]
SingleFaces ==
    LET fs == {FaceOf(zs) : zs \in [1..3 -> ZValues] \cup [1..4 -> ZValues]}
    IN fs \cup {Reversed(f) : f \in fs}
SortFaces ==
    {FaceOf(zs) : zs \in {<<0 - 30, 0 - 30, 0 - 30, 0 - 30>>,
                          <<0 - 10, 0 - 10, 0 - 10, 0 - 10>>,
                          <<0 - 30, 0 - 10, 0 - 10, 0 - 30>>,
                          <<0 - 10, 10, 10, 0 - 10>>}}
ObjectColors == <<"red", "green", "blue">>
Scenes ==
    {<<[faces |-> <<f>>, color |-> ObjectColors[1]]>> : f \in SingleFaces}
    \cup UNION {{[i \in 1..n |-> [faces |-> fl[i], color |-> ObjectColors[i]]] :
                    fl \in [1..n -> UNION {[1..m -> SortFaces] : m \in 1..MaxFaces}]} :
                n \in 1..MaxObjects}
TagAnchors ==
    UNION {[1..n -> {<<0 - 7, 3, z, 1>> : z \in ZValues}] : n \in 1..MaxTags}

DrawNext ==
    \/ \E objects_to_draw \in Scenes : BeginDraw(objects_to_draw)
    \/ DrawFace
    \/ \E anchors \in TagAnchors : DrawNametags(anchors)
    \/ Flip
DrawSpec == Init /\ [][DrawNext]_vars

\* ------------------------------------------------------------ the claims
\* C1: the ids the server hands out are 1, 2, 3, ... in accept order: each
\* accepted connection gets an id strictly greater than every id handed out
\* before, and no id is given to two connections, whatever has become of the
\* earlier holders (disconnected, failed handshake).
C1_IdsInAcceptOrder ==
    /\ \A c \in 1..accepted : hid[c] = FirstPlayerId + (c - 1)
    /\ \A c, d \in 1..accepted : c < d => hid[c] < hid[d]
    /\ \A i \in DOMAIN players : \E c \in 1..accepted : hid[c] = i
\* A second id is handed out while the holder of the first has gone: once by a
\* disconnect of a registered player, once by a failed handshake.
C1_Witness ==
    /\ accepted = 2
    /\ hpc[1] \in {"cleaned", "abandoned"}
    /\ hpc[2] = "send_id"

\* C2: after the connection of a registered client has dropped and its handler
\* has stopped (the failure seen by the receive or by the send of the reply),
\* the player's id is absent from the players table, hence from every snapshot
\* built afterwards.
C2_DroppedPlayerRemoved ==
    \A c \in Conns : hpc[c] \in {"cleaned", "crashed_loop"} => hid[c] \notin DOMAIN players

\* C3: client A has connected and got id 1, client B's connect has returned id 2,
\* then A sends (1, 5, 1) (B has sent nothing; nothing has failed): the snapshot
\* A reads in reply has id 1 at (1, 5, 1) and id 2 at the spawn position (0, 5, 0).
C3_EndToEnd ==
    \A c \in Conns : \A j \in Clients :
        LET k == owner[c] IN
        ( /\ c <= nconns /\ faults = 0
          /\ net[k] = c /\ cpc[k] = "send_recv" /\ player_id[k] = 1
          /\ position[k] = <<H(1), H(5), H(1)>>
          /\ s2c[c] # << >>
          /\ j # k /\ player_id[j] = 2 /\ 2 \in roster_at_send[k]
          /\ InGame(j) /\ cpc[j] = "frame" /\ ~world_initialized[j] )
        => LET m == Head(s2c[c]) IN
           /\ 1 \in DOMAIN m.players /\ m.players[1].pos = <<H(1), H(5), H(1)>>
           /\ 2 \in DOMAIN m.players /\ m.players[2].pos = <<H(0), H(5), H(0)>>

\* C4: when the display name cannot be received and decoded (end of stream, or a
\* broken connection during the handshake), the handler closes the connection
\* and the connection's id is not, and never becomes, a key of players.
C4_FailedHandshake ==
    \A c \in Conns :
        hpc[c] \in {"abandoned", "crashed_handshake"}
        => server_closed[c] /\ hid[c] \notin DOMAIN players

\* The client k waits for the reply to its update on connection c.
WaitsOn(k, c) == net[k] = c /\ cpc[k] = "send_recv"
IsReply(c) == s2c[c] # << >> /\ Head(s2c[c]).type = "reply"

\* C5: for every position update a handler receives it overwrites the player's
\* position in the table and sends one reply; the reply holds the sender's id
\* with the position just sent, an entry for every player registered when the
\* reply is built, and the whole world cube list.
C5_ReplyInFlight ==
    \A c \in Conns :
        /\ Len(s2c[c]) <= 1
        /\ hpc[c] = "reply" => s2c[c] = << >> /\ hid[c] \in DOMAIN players
        /\ IsReply(c) =>
              /\ Head(s2c[c]).cubes = world_cubes
              /\ WaitsOn(owner[c], c) =>
                    /\ player_id[owner[c]] \in DOMAIN Head(s2c[c]).players
                    /\ Head(s2c[c]).players[player_id[owner[c]]].pos = position[owner[c]]
C5_HandlerStep ==
    \A c \in Conns :
        /\ (hpc[c] = "recv" /\ hpc'[c] = "reply") =>
              /\ hid[c] \in DOMAIN players'
              /\ players'[hid[c]].pos = Head(c2s[c]).pos
        /\ (hpc[c] = "reply" /\ hpc'[c] = "recv" /\ ~client_closed[c]) =>
              /\ Len(s2c'[c]) = Len(s2c[c]) + 1
              /\ Head(s2c'[c]).players = players
              /\ Head(s2c'[c]).cubes = world_cubes
C5_UpdateAnswered == []C5_ReplyInFlight /\ [][C5_HandlerStep]_vars
\* A reply is on its way to a client that has moved off the spawn position, built
\* while two players were registered.
C5_Witness ==
    \E c \in Conns :
        /\ IsReply(c) /\ WaitsOn(owner[c], c)
        /\ position[owner[c]] # SpawnPos
        /\ Cardinality(DOMAIN Head(s2c[c]).players) = 2

\* C6: a step of the handler of one connection (it registers its player, fails
\* mid-session, removes its entry) leaves every other connection as it is: no
\* other handler ends or loses a reply, no other player's entry is removed or
\* changed.
C6_Step ==
    \A c, d \in Conns :
        (c # d /\ hpc'[c] # hpc[c] /\ main_pc' = main_pc) =>
            /\ hpc'[d] = hpc[d]
            /\ s2c'[d] = s2c[d] /\ c2s'[d] = c2s[d]
            /\ server_closed'[d] = server_closed[d]
            /\ hid[d] \in DOMAIN players =>
                  hid[d] \in DOMAIN players' /\ players'[hid[d]] = players[hid[d]]
C6_OthersUnaffected == [][C6_Step]_vars
\* One handler has removed its entry or has died mid-session while another
\* player is registered and served.
C6_Witness ==
    \E c, d \in Conns :
        /\ c # d
        /\ hpc[c] \in {"cleaned", "crashed_loop"}
        /\ hpc[d] \in {"recv", "reply"}
        /\ hid[d] \in DOMAIN players

\* C7: any failure of the exchange of a frame while the client is in game (the
\* send or the receive raises, the server has closed so that the receive gives
\* end of stream) is "connection lost": the client ends the frame in the main
\* menu, net None, world_initialized false, server_cubes empty, and its loop
\* goes on.
ExchangeFails(k) ==
    /\ InGame(k) /\ net[k] # None
    /\ \/ cpc[k] = "frame" /\ link[net[k]] # "up"
       \/ /\ cpc[k] = "send_recv"
          /\ RecvOutcome(s2c[net[k]], server_closed[net[k]], link[net[k]])
                \notin {"data", "block"}
C7_Step ==
    \A k \in Clients :
        (ExchangeFails(k) /\ cpc'[k] # "exited"
            /\ <<cpc[k], game_state[k], position[k]>>' # <<cpc[k], game_state[k], position[k]>>)
        => /\ cpc'[k] = "frame"
           /\ game_state'[k] = "main_menu"
           /\ net'[k] = None
           /\ ~world_initialized'[k]
           /\ server_cubes'[k] = << >>
C7_ConnectionLost == [][C7_Step]_vars

\* C8: when the connection cannot be established (unreachable, refused, reset
\* before the id is received) connect returns None and connect_to_server leaves
\* the client in the multiplayer menu, net None, player_id unchanged.
ConnectFails(k) ==
    /\ cpc[k] = "connect_recv"
    /\ RecvOutcome(s2c[net[k]], server_closed[net[k]], link[net[k]])
          \in {"ConnectionRefusedError", "ConnectionResetError", "TimeoutError"}
C8_Step ==
    \A k \in Clients :
        (ConnectFails(k) /\ cpc'[k] \notin {"connect_recv", "exited"}) =>
            /\ cpc'[k] = "frame"
            /\ game_state'[k] = "multiplayer_menu"
            /\ net'[k] = None
            /\ player_id'[k] = player_id[k]
C8_InMenu ==
    \A k \in Clients :
        (game_state[k] = "multiplayer_menu" /\ cpc[k] = "frame") => net[k] = None
C8_ConnectFailure == []C8_InMenu /\ [][C8_Step]_vars
\* A connection of the client was reset before the id came: the client is back
\* in the multiplayer menu without that connection (and never closed it).
C8_Witness ==
    \E c \in Conns : LET k == owner[c] IN
        /\ c <= nconns /\ link[c] # "up" /\ ~client_closed[c]
        /\ net[k] = None /\ cpc[k] = "frame" /\ game_state[k] = "multiplayer_menu"
        /\ player_id[k] = NoPlayerId

\* C9: in a session in which neither side fails the two sides take turns (id,
\* name, then update and snapshot alternately), so no state is reached in which
\* the client waits for a snapshot while its handler waits for an update and
\* nothing is on its way in either direction.
C9_NoMutualWait ==
    \A c \in Conns : \A k \in Clients :
        ~ /\ WaitsOn(k, c)
          /\ hpc[c] = "recv"
          /\ RecvOutcome(c2s[c], client_closed[c], link[c]) = "block"
          /\ RecvOutcome(s2c[c], server_closed[c], link[c]) = "block"

\* C10: the world cube list is built once, before the server listens, and never
\* changes afterwards: it is one of the lists the generator can build, every
\* snapshot sent carries it, and every client that has built its cubes has built
\* them from it.
C10_Built ==
    /\ main_pc # "generate" => world_cubes \in GeneratedWorlds(NumCubes)
    /\ main_pc = "generate" => accepted = 0 /\ nconns = 0 /\ world_cubes = << >>
    /\ \A c \in Conns : \A i \in 1..Len(s2c[c]) :
          s2c[c][i].type = "reply" => s2c[c][i].cubes = world_cubes
    /\ \A k \in Clients :
          world_initialized[k] => server_cubes[k] = CubesOf(world_cubes)
C10_Step == main_pc # "generate" => world_cubes' = world_cubes
C10_WorldBuiltOnce == []C10_Built /\ [][C10_Step]_vars
\* One client has built its cubes from a snapshot while a later snapshot is on
\* its way to a client.
C10_Witness ==
    /\ \E k \in Clients : world_initialized[k] /\ Len(server_cubes[k]) = NumCubes + 1
    /\ \E c \in Conns : IsReply(c) /\ Len(Head(s2c[c]).cubes) = NumCubes + 1

\* C19: generate_random_world_cubes(N) builds N + 1 cubes: first the ground
\* cuboid at (0, -2, 0) of size (150, 1, 150), then N cubes each of a size in
\* [3, 10] at the height -1.5 + size / 2, so that its bottom face is on the top
\* surface of the ground, y = -1.5.
C19_WorldShape ==
    main_pc # "generate" =>
        /\ Len(world_cubes) = NumCubes + 1
        /\ world_cubes[1].pos = <<H(0), H(-2), H(0)>>
        /\ world_cubes[1].size = <<H(150), H(1), H(150)>>
        /\ \A i \in 2..Len(world_cubes) :
              LET size == world_cubes[i].size[1]
                  py == world_cubes[i].pos[2]
              IN /\ Len(world_cubes[i].size) = 1
                 /\ H(3) <= size /\ size <= H(10)
                 /\ 2 * py = 2 * (0 - 3) + size
                 /\ 2 * py - size = 2 * world_cubes[1].pos[2] + world_cubes[1].size[2]
\* The world has been generated, with a cube of the smallest or the largest size.
C19_Witness ==
    /\ main_pc # "generate"
    /\ \E i \in 2..Len(world_cubes) : world_cubes[i].size[1] \in {H(3), H(10)}

\* C12: the distance of the camera is within [min_distance, max_distance] =
\* [5, 40] whenever Camera.update uses it to compute the position of the camera.
C12_DistanceUsedInRange ==
    /\ min_distance <= camera.position.distance
    /\ camera.position.distance <= max_distance

\* C20: after every Camera.update, whatever the mouse has done, the pitch of the
\* camera is within [-89, 89] (and so is the pitch its position was computed
\* from).
C20_PitchInRange ==
    /\ 0 - PitchLimit <= camera.pitch /\ camera.pitch <= PitchLimit
    /\ 0 - PitchLimit <= camera.position.pitch /\ camera.position.pitch <= PitchLimit
\* The mouse has gone further down than the limit allows: the pitch is at the limit.
C20_Witness ==
    /\ run_pc = "tick"
    /\ camera.pitch = 0 - PitchLimit
    /\ camera.position.pitch = 0 - PitchLimit

\* The step is the body of a frame of the local engine in game.
FrameInGame ==
    /\ run_pc = "events" /\ run_pc' = "tick"
    /\ game_state[Local] = "in_game_multiplayer"

\* C11: within a session the cube list is applied once: server_cubes is built
\* from the first reply that carries cubes and world_initialized becomes true;
\* no later reply of the session changes server_cubes; the return to the menu
\* resets both, so that the first reply of the next session is applied again.
C11_Step ==
    /\ (FrameInGame /\ world_initialized[Local] /\ game_state'[Local] = game_state[Local]) =>
          /\ world_initialized'[Local]
          /\ server_cubes'[Local] = server_cubes[Local]
    /\ (~world_initialized[Local] /\ world_initialized'[Local]) =>
          /\ FrameInGame
          /\ server_cubes'[Local] \in {CubesOf(w) : w \in GameWorlds}
    /\ (game_state[Local] # "main_menu" /\ game_state'[Local] = "main_menu") =>
          /\ ~world_initialized'[Local]
          /\ server_cubes'[Local] = << >>
C11_Consistent ==
    /\ ~world_initialized[Local] => server_cubes[Local] = << >>
    /\ world_initialized[Local] =>
          /\ game_state[Local] = "in_game_multiplayer"
          /\ server_cubes[Local] \in {CubesOf(w) : w \in GameWorlds}
C11_CubesAppliedOnce == []C11_Consistent /\ [][C11_Step]_vars
\* The second session of the engine has built its cubes, from the world with the
\* cube around the spawn position.
C11_Witness ==
    /\ net[Local] = 2 /\ client_closed[1]
    /\ world_initialized[Local]
    /\ \E i \in 1..Len(server_cubes[Local]) : server_cubes[Local][i].size = <<H(10), H(10), H(10)>>

\* C13: a jump trigger takes effect exactly when the player is grounded: the
\* vertical velocity becomes jump_strength and is_grounded false; when the
\* player is not grounded the trigger changes neither.
C13_Step ==
    ( /\ run_pc = "events" /\ events # << >> /\ events' = Tail(events)
      /\ Head(events) = "K_SPACE"
      /\ StartsWithInGame(game_state[Local]) )
    => IF is_grounded
       THEN player_y_velocity' = jump_strength /\ ~is_grounded'
       ELSE player_y_velocity' = player_y_velocity /\ is_grounded' = is_grounded
C13_JumpWhenGrounded == [][C13_Step]_vars
\* The player has just jumped from the ground, and a second trigger of the same
\* frame is still to be handled, in the air.
C13_Witness ==
    /\ run_pc = "events" /\ events = <<"K_SPACE">>
    /\ player_y_velocity = jump_strength /\ ~is_grounded
    /\ StartsWithInGame(game_state[Local])

\* C16: the position that a collision resolution of the physics step leaves the
\* player at (an X revert, a Z revert, a Y snap) overlaps none of the obstacles
\* of the step, whatever the obstacle set.
PlayerNow ==
    [pos |-> player_position, vx |-> player_x_velocity, vy |-> player_y_velocity,
     vz |-> player_z_velocity, grounded |-> is_grounded]
C16_Step ==
    LET platforms == AllPlatforms(server_cubes[Local])
        others == OtherPlayerCubes(client_players, player_id[Local])
    IN ( /\ FrameInGame
         /\ PhysicsStep(PlayerNow, {}, camera.yaw, platforms, others)
               # PhysicsStep(PlayerNow, {}, camera.yaw, << >>, << >>) )
       => FirstHit(PlayerCube(player_position'), platforms \o others) = 0
C16_ResolvedOverlapsNothing == [][C16_Step]_vars

\* The face handled by the last turn of the drawing loop, and whether that turn
\* clipped it.
HandledFace == all_faces[face_index - 1]
WasClipped == face_outcome \in {"dropped", "unprojected", "drawn"}
InFrontOfNearPlane(v) == v[3] < NEAR_CLIP_PLANE * v[4]
Rotated(s) == [i \in 1..Len(s) |-> s[(i % Len(s)) + 1]]

\* C14 (as stated): for a polygon whose vertices all have z < NEAR_CLIP_PLANE,
\* clip_against_near_plane returns the input sequence itself: the same
\* vertices at the same positions.
C14_SameSequence ==
    ( /\ WasClipped
      /\ \A i \in 1..Len(HandledFace.verts) : InFrontOfNearPlane(HandledFace.verts[i]) )
    => clipped_face = HandledFace.verts

\* C14 (amended): for a polygon whose vertices all have z < NEAR_CLIP_PLANE,
\* clip_against_near_plane returns the same number of vertices and the same
\* vertices in the same cyclic order, starting at the second vertex of the
\* input: the input sequence rotated by one position.
C14_SameCycle ==
    ( /\ WasClipped
      /\ \A i \in 1..Len(HandledFace.verts) : InFrontOfNearPlane(HandledFace.verts[i]) )
    => /\ Len(clipped_face) = Len(HandledFace.verts)
       /\ clipped_face = Rotated(HandledFace.verts)

C14_Witness ==
    /\ WasClipped
    /\ Len(HandledFace.verts) = 4
    /\ \A i \in 1..4 : InFrontOfNearPlane(HandledFace.verts[i])
    /\ \E i, j \in 1..4 : HandledFace.verts[i][3] # HandledFace.verts[j][3]
    /\ face_outcome = "drawn"

\* The place of the face assembled as the nth one in the sorted list.
PlaceOf(nth) == CHOOSE i \in 1..Len(all_faces) : all_faces[i].nth = nth

\* C15: the drawing loop goes through the faces in ascending order of their
\* minimum camera-space z, faces of equal minimum z in the order in which they
\* were assembled, and the polygons are drawn in that order.
C15_FarthestFirst ==
    /\ \A i, j \in 1..Len(all_faces) :
          i < j => \/ MinZ(all_faces[i].verts) < MinZ(all_faces[j].verts)
                   \/ /\ MinZ(all_faces[i].verts) = MinZ(all_faces[j].verts)
                      /\ all_faces[i].nth < all_faces[j].nth
    /\ \A a, b \in 1..Len(drawn) :
          a < b => PlaceOf(drawn[a].nth) < PlaceOf(drawn[b].nth)

C15_Witness ==
    /\ Len(all_faces) = 4
    /\ Len(drawn) = 4
    /\ \E i, j \in 1..4 : i < j /\ all_faces[i].nth > all_faces[j].nth
    /\ \E i, j \in 1..4 : /\ i < j
                          /\ all_faces[i].depth = all_faces[j].depth
                          /\ all_faces[i].color # all_faces[j].color

\* C17: for an anchor point with camera-space z >= 0 project_point gives None
\* without dividing and the name tag is not drawn; for z < 0 it gives a screen
\* point.
C17_BehindCameraNoPoint ==
    \A i \in 1..Len(nametags) :
        LET tag == nametags[i] IN
        /\ tag.screen_pos.kind # "ZeroDivisionError"
        /\ tag.anchor[3] >= 0 => (tag.screen_pos.kind = "None" /\ ~tag.blitted)
        /\ tag.anchor[3] < 0 => (tag.screen_pos.kind = "point" /\ tag.blitted)

C17_Witness ==
    /\ draw_pc = "flip"
    /\ Len(nametags) = 2
    /\ nametags[1].anchor[3] = 0
    /\ ~nametags[1].blitted
    /\ nametags[2].anchor[3] < 0
    /\ nametags[2].blitted

\* C18: for a polygon whose vertices all have z >= NEAR_CLIP_PLANE,
\* clip_against_near_plane returns the empty list and the drawing loop drops the
\* face.
C18_AllBehindDropped ==
    ( /\ WasClipped
      /\ \A i \in 1..Len(HandledFace.verts) : ~InFrontOfNearPlane(HandledFace.verts[i]) )
    => /\ clipped_face = << >>
       /\ face_outcome = "dropped"

C18_Witness ==
    /\ WasClipped
    /\ Len(HandledFace.verts) = 4
    /\ \A i \in 1..4 : HandledFace.verts[i][3] = NEAR_CLIP_PLANE
    /\ clipped_face = << >>
    /\ face_outcome = "dropped"
    /\ drawn = << >>

\* The connection whose handler was given the id p.
HandlerOf(p) == CHOOSE c \in 1..accepted : hid[c] = p

\* One step of the server seen from the entry of player p.
C21_EntryStep(p) ==
    IF p \in DOMAIN players /\ p \in DOMAIN players'
    THEN /\ players'[p].color = players[p].color
         /\ players'[p].name = players[p].name
         /\ players'[p].pos # players[p].pos
               => /\ hpc[HandlerOf(p)] = "recv"
                  /\ hpc'[HandlerOf(p)] = "reply"
                  /\ c2s[HandlerOf(p)] # << >>
                  /\ Head(c2s[HandlerOf(p)]).type = "update"
                  /\ players'[p].pos = Head(c2s[HandlerOf(p)]).pos
    ELSE IF p \in DOMAIN players'
    THEN /\ hpc[HandlerOf(p)] = "recv_name"
         /\ hpc'[HandlerOf(p)] = "recv"
         /\ players'[p].pos = SpawnPos
         /\ players'[p].name = Head(c2s[HandlerOf(p)]).name
    ELSE hpc'[HandlerOf(p)] = "cleaned"

C21_Step ==
    /\ \A p \in (DOMAIN players) \cup (DOMAIN players') : C21_EntryStep(p)
    /\ \A p, q \in (DOMAIN players) \cup (DOMAIN players') :
          ( /\ p # q
            /\ ~(p \in DOMAIN players /\ p \in DOMAIN players' /\ players'[p] = players[p]) )
          => (q \in DOMAIN players /\ q \in DOMAIN players' /\ players'[q] = players[q])

\* While the handler of a registered connection runs, its owner is in the
\* session and no update of it is on the way, the entry holds the spawn position or the position the
\* owner sent last; its name is the name the owner sent.
C21_Entries ==
    \A c \in 1..accepted :
        hid[c] \in DOMAIN players
        => /\ players[hid[c]].name = owner[c]
           /\ players[hid[c]].color \in PlayerColors
           /\ ( /\ HandlerLive(c)
                /\ net[owner[c]] = c
                /\ cpc[owner[c]] \in {"frame", "send_recv"}
                /\ c2s[c] = << >> )
              => players[hid[c]].pos \in {SpawnPos, position[owner[c]]}

\* C21: a step of the server changes at most one entry of players, and only
\* through the handler that was given that id: it adds the entry with the spawn
\* position, writes the position of an update of its own connection into it
\* (colour and name kept), or deletes it; an entry holds the spawn position or
\* the last position its player sent.
C21_OwnEntryOnly == [][C21_Step]_vars /\ []C21_Entries

C21_Witness ==
    /\ DOMAIN players = {FirstPlayerId, FirstPlayerId + 1}
    /\ players[FirstPlayerId].pos # SpawnPos
    /\ players[FirstPlayerId + 1].pos = SpawnPos
    /\ hpc[HandlerOf(FirstPlayerId + 1)] = "reply"

\* C22: a physics step that starts with the player overlapping none of its
\* obstacles (the static platform, the server cubes, the cubes of the other
\* players) ends with the player overlapping none of them.
C22_Step ==
    LET obstacles == AllPlatforms(server_cubes[Local])
                        \o OtherPlayerCubes(client_players, player_id[Local])
    IN ( /\ FrameInGame
         /\ FirstHit(PlayerCube(player_position), obstacles) = 0 )
       => FirstHit(PlayerCube(player_position'), obstacles) = 0
C22_StaysClear == [][C22_Step]_vars

\* C23: every vertex that clip_against_near_plane returns has
\* z <= NEAR_CLIP_PLANE, so project_point gives a screen point for each of them
\* and the drawing loop drops no clipped face for a failed projection.
C23_ClippedInFront ==
    /\ WasClipped =>
          /\ \A i \in 1..Len(clipped_face) :
                /\ clipped_face[i][4] > 0
                /\ clipped_face[i][3] <= NEAR_CLIP_PLANE * clipped_face[i][4]
                /\ project_point(clipped_face[i]).kind = "point"
          /\ face_outcome # "unprojected"
          /\ Len(clipped_face) >= 3 => face_outcome = "drawn"
    /\ \A a \in 1..Len(drawn) :
          \A i \in 1..Len(drawn[a].points) : drawn[a].points[i].kind = "point"

C23_Witness ==
    /\ face_outcome = "drawn"
    /\ \E i \in 1..Len(HandledFace.verts) : HandledFace.verts[i][3] >= 0
    /\ \E i \in 1..Len(HandledFace.verts) : HandledFace.verts[i][3] = NEAR_CLIP_PLANE
    /\ \E i \in 1..Len(clipped_face) : clipped_face[i][4] > 1
    /\ Len(clipped_face) > Len(HandledFace.verts)

\* C24: whenever a client is at the level of its frame loop (not inside a
\* socket call, not ended): in game it holds the connection whose connect
\* gave it its player id; in the main menu it holds no connection, the world is
\* not initialized and server_cubes is empty.
C24_FrameStart ==
    \A k \in Clients :
        cpc[k] = "frame" =>
            /\ InGame(k) => /\ net[k] # None
                            /\ owner[net[k]] = k
                            /\ player_id[k] # NoPlayerId
                            /\ player_id[k] = hid[net[k]]
            /\ game_state[k] = "main_menu" => /\ net[k] = None
                                              /\ ~world_initialized[k]
                                              /\ server_cubes[k] = << >>

C24_Witness ==
    /\ cpc = [k \in Clients |-> "frame"]
    /\ game_state["A"] = "main_menu"
    /\ player_id["A"] # NoPlayerId
    /\ \E c \in 1..nconns : owner[c] = "A" /\ client_closed[c]
    /\ InGame("B")
    /\ world_initialized["B"]
    /\ link[net["B"]] # "up"

====
